---- MODULE Spec2Model ----
(***************************************************************************)
(* Model of tele-cloud's node_server.js: the metadata store (one JSON file *)
(* per fileId under METADATA_DIR), the chunk upload handler POST /u with   *)
(* its suspension inside uploadToService, the DELETE /:fileId handler and  *)
(* the GET /:fileId handler.  Node runs every handler on one thread, so    *)
(* the code between two awaits is one atomic step.                         *)
(*                                                                         *)
(* Spec          every kind of request, MaxCalls calls of POST /u          *)
(* RaceSpec      MaxUploads overlapping calls with well-formed requests    *)
(* RetrySpec     the retry loop of uploadToService, with fairness          *)
(* DownloadSpec  GET /:fileId from await to await, after calls of POST /u  *)
(*               that ran one after the other; a part is written whole     *)
(* StreamSpec    GET /:fileId event by event: 'data', 'end' and 'error' of *)
(*               the sources, 'drain' of the response, client disconnect   *)
(***************************************************************************)
EXTENDS Integers, Sequences, FiniteSets, TLC

VARIABLES
  store,    \* the metadata directory: fileId -> parsed content of <fileId>.json
  calls,    \* the POST /u requests that reached uploadToService: their
            \* locals across the await, and their answer once they returned
  blobs,    \* the file_ids of the documents the backend has stored
  last,     \* the request the running handler took up and the status it
            \* answered (0 when it suspended instead of answering)
  deleted,  \* history: the fileIds deleted by a DELETE that answered 200
            \* and for which no POST /u has arrived since
  dl        \* the GET /:fileId request that is being served: its locals
            \* across the awaits, the state of its response, the
            \* segments of the parts that were written to it in full
            \* (written), the pipes of its parts, the pipes that wait
            \* for 'drain' and the data passed to res.write (wire)

vars == <<store, calls, blobs, last, deleted, dl>>

----------------------------------------------------------------------------
(* Bounds of the model *)

\* number of POST /u requests that get as far as uploadToService
MaxCalls == 2

Slots == 1..MaxCalls

FileIds == {"f1"}

\* generateDeleteToken: the 48 hex digits of 24 fresh random bytes. Every
\* call of it gives a value no earlier call gave; the token minted by the
\* request in slot c is the number c.
generateDeleteToken(c) == c

Tokens == Slots

----------------------------------------------------------------------------
(* JavaScript values *)

\* Number.NaN, the result of parseInt on a string without leading digits
NaN == -1

\* JSON null in a numeric field (JSON.stringify writes NaN as null)
NumNull == -2

\* null in the deleteToken field
NullToken == 0

\* a form field that is undefined or the empty string
Absent == <<>>

\* the character "x" in a decimal string (digits are 0..9)
LetterX == 10

RECURSIVE DigitsValue(_, _)
DigitsValue(s, acc) ==
  IF s = <<>> \/ s[1] > 9 THEN acc
  ELSE DigitsValue(Tail(s), acc * 10 + s[1])

\* parseInt(s, 10) on a string of digits and letters
ParseInt(s) ==
  IF s = <<>> \/ s[1] > 9 THEN NaN ELSE DigitsValue(s, 0)

\* JSON.parse(JSON.stringify(n)) of a number
JsonNumber(n) == IF n = NaN THEN NumNull ELSE n

\* a < b in JavaScript: false when either side is NaN
JsLess(a, b) == a # NaN /\ b # NaN /\ a < b

\* a === b - 1 in JavaScript: false when either side is NaN
JsIsPredecessor(a, b) == a # NaN /\ b # NaN /\ a = b - 1

----------------------------------------------------------------------------
(* formatFileName: file names are sequences of one-character strings; the *)
(* string "e^" stands for an accented letter whose base letter is "e".     *)

Lower(ch) ==
  CASE ch = "A" -> "a"
    [] ch = "P" -> "p"
    [] OTHER -> ch

StripAccent(ch) == IF ch = "e^" THEN "e" ELSE ch

IsSpace(ch) == ch = " "

IsKept(ch) == ch \in {"a", "e", "p", "A", "P", "1", " ", "-"}

RECURSIVE LastDot(_, _)
LastDot(s, i) ==
  IF i = 0 THEN 0
  ELSE IF s[i] = "." THEN i ELSE LastDot(s, i - 1)

\* s.normalize("NFD").replace(/[\u0300-\u036f]/g, "")
StripAccents(s) == [i \in 1..Len(s) |-> StripAccent(s[i])]

\* s.toLowerCase()
toLowerCase(s) == [i \in 1..Len(s) |-> Lower(s[i])]

RECURSIVE TrimLeft(_)
TrimLeft(s) ==
  IF s # <<>> /\ IsSpace(s[1]) THEN TrimLeft(Tail(s)) ELSE s

RECURSIVE TrimRight(_)
TrimRight(s) ==
  IF s # <<>> /\ IsSpace(s[Len(s)]) THEN TrimRight(SubSeq(s, 1, Len(s) - 1))
  ELSE s

\* s.replace(/\s+/g, "-"): every run of spaces becomes one hyphen
RECURSIVE SpacesToHyphen(_)
SpacesToHyphen(s) ==
  IF s = <<>> THEN <<>>
  ELSE IF IsSpace(s[1])
       THEN <<"-">> \o SpacesToHyphen(TrimLeft(s))
       ELSE <<s[1]>> \o SpacesToHyphen(Tail(s))

\* s.replace(/-+/g, "-"): every run of hyphens becomes one hyphen
RECURSIVE CollapseHyphens(_)
CollapseHyphens(s) ==
  IF s = <<>> THEN <<>>
  ELSE IF s[1] = "-" /\ Len(s) > 1 /\ s[2] = "-"
       THEN CollapseHyphens(Tail(s))
       ELSE <<s[1]>> \o CollapseHyphens(Tail(s))

\* formatFileName(filename, false)
formatFileName(filename) ==
  LET dot       == LastDot(filename, Len(filename))
      extension == IF dot = 0 THEN filename
                   ELSE SubSeq(filename, dot + 1, Len(filename))
      name      == IF dot = 0 THEN <<>> ELSE SubSeq(filename, 1, dot - 1)
      cleaned   == TrimRight(TrimLeft(
                     SelectSeq(StripAccents(name), IsKept)))
      kebab     == CollapseHyphens(SpacesToHyphen(toLowerCase(cleaned)))
  IN  kebab \o <<".">> \o extension

\* a property that was never assigned
Undefined == -3

Min(a, b) == IF a < b THEN a ELSE b

\* s.includes(x)
InSeq(x, s) == \E i \in 1..Len(s) : s[i] = x

\* s.indexOf(ch) + 1: the place of the first ch in s, 0 when there is none
IndexOf(s, ch) ==
  IF \E i \in 1..Len(s) : s[i] = ch
  THEN CHOOSE i \in 1..Len(s) :
         s[i] = ch /\ \A j \in 1..(i - 1) : s[j] # ch
  ELSE 0

\* s.split(ch)[0]
SplitFirst(s, ch) ==
  IF IndexOf(s, ch) = 0 THEN s ELSE SubSeq(s, 1, IndexOf(s, ch) - 1)

\* s.split(ch)[1], for s in which ch occurs
SplitSecond(s, ch) == SplitFirst(SubSeq(s, IndexOf(s, ch) + 1, Len(s)), ch)

\* array.slice(a, b): NaN counts as 0, b is cut at the length
Slice(s, a, b) ==
  SubSeq(s, (IF a = NaN THEN 0 ELSE a) + 1,
            IF b = NaN THEN 0 ELSE Min(b, Len(s)))

----------------------------------------------------------------------------
(* Requests *)

MiB == 1024 * 1024

MiB1     == <<1, 0, 4, 8, 5, 7, 6>>       \* "1048576"
MiB50    == <<5, 2, 4, 2, 8, 8, 0, 0>>    \* "52428800"

\* "x10485760", a chunk size that is not a number
NotANumber == <<LetterX, 1, 0, 4, 8, 5, 7, 6, 0>>

\* a well-formed first request; the other requests differ from it
BaseRequest ==
  [ chunk |-> TRUE, fileId |-> "f1", fileName |-> <<"a", "-", "1", ".", "p">>,
    fileSize |-> <<2, 5, 0, 0, 0, 0, 0, 0>>, chunkIndex |-> <<0>>,
    chunkSize |-> MiB1, totalChunks |-> <<2>> ]

\* chunkIndex and totalChunks of a request
Positions ==
  { [chunkIndex |-> <<0>>, totalChunks |-> <<2>>],
    [chunkIndex |-> <<1>>, totalChunks |-> <<2>>],
    [chunkIndex |-> <<0>>, totalChunks |-> <<1>>] }

\* what a request declares about the file: name, size and chunk size
Declarations ==
  { [fileName |-> <<"a", "-", "1", ".", "p">>, fileSize |-> <<2, 5, 0, 0, 0, 0, 0, 0>>,
     chunkSize |-> MiB1],
    [fileName |-> <<"A", " ", "(", "e^", ")", ".", "P">>,
     fileSize |-> <<9, 0, 0, 0, 0, 0, 0, 0>>, chunkSize |-> MiB50] }

ChunkSizeInputs ==
  { <<5, 2, 4, 2, 8, 8>>,          \* 512 KiB
    <<1, 0, 4, 8, 5, 7, 5>>,       \* 1 MiB - 1
    MiB1, MiB50,
    <<5, 2, 4, 2, 8, 8, 0, 1>>,    \* 50 MiB + 1
    <<6, 2, 9, 1, 4, 5, 6, 0>>,    \* 60 MiB
    NotANumber }

\* requests with all fields present
CompleteRequests ==
  { [BaseRequest EXCEPT !.fileId = f, !.chunkIndex = p.chunkIndex,
                        !.totalChunks = p.totalChunks] :
      f \in FileIds, p \in Positions }
  \cup { [BaseRequest EXCEPT !.fileName = d.fileName, !.fileSize = d.fileSize,
                             !.chunkSize = d.chunkSize] : d \in Declarations }
  \cup { [BaseRequest EXCEPT !.chunkSize = s] : s \in ChunkSizeInputs }

\* requests that lack one field, or two
IncompleteRequests ==
  { [BaseRequest EXCEPT !.chunk = FALSE], [BaseRequest EXCEPT !.fileId = ""],
    [BaseRequest EXCEPT !.fileName = Absent],
    [BaseRequest EXCEPT !.fileSize = Absent],
    [BaseRequest EXCEPT !.chunkIndex = Absent],
    [BaseRequest EXCEPT !.chunkSize = Absent],
    [BaseRequest EXCEPT !.totalChunks = Absent],
    [BaseRequest EXCEPT !.chunk = FALSE, !.chunkSize = <<5, 2, 4, 2, 8, 8>>] }

\* req.file and req.body of POST /u; fileId "" is a missing fileId
UploadRequests == CompleteRequests \cup IncompleteRequests

\* a token that is missing from the body of DELETE
NoToken == 0

\* req.params.fileId and req.body.token of DELETE
DeleteRequests == [ fileId : FileIds, token : Tokens \cup {NoToken} ]

DownloadRequests == [ fileId : FileIds ]

\* the characters "=" and "-" of a Range header (digits are 0..9, every
\* letter is LetterX)
CharEquals == 11
CharHyphen == 12

\* "bytes"
BytesUnit == <<LetterX, LetterX, LetterX, LetterX, LetterX>>

\* "bytes=<digits>-"
OpenRange(digits) == BytesUnit \o <<CharEquals>> \o digits \o <<CharHyphen>>

\* req.headers.range of GET /:fileId; Absent when the header is not sent
RangeHeaders ==
  { Absent,
    OpenRange(<<0>>),
    OpenRange(<<5, 0, 0, 0, 0, 0, 0>>),
    OpenRange(<<1, 0, 0, 0, 0, 0, 0, 0>>),
    OpenRange(<<1, 7, 0, 0, 0, 0, 0, 0>>),
    OpenRange(<<2, 0, 0, 0, 0, 0, 0, 0>>),
    OpenRange(<<2, 2, 0, 0, 0, 0, 0, 0>>),
    BytesUnit \o <<CharEquals, 0, CharHyphen, 4, 9, 9>>,      \* "bytes=0-499"
    BytesUnit \o <<CharEquals, CharHyphen, 5, 0, 0>>,         \* "bytes=-500"
    BytesUnit }                                              \* "bytes"

\* req.params.fileId and req.headers.range of GET /:fileId
GetRequests == [ fileId : FileIds, range : RangeHeaders ]

\* the chunks of a file of 25,000,000 bytes cut at 10,000,000 bytes
ChunkRequests ==
  { [BaseRequest EXCEPT !.chunkSize = <<1, 0, 0, 0, 0, 0, 0, 0>>,
                        !.chunkIndex = <<i>>, !.totalChunks = <<3>>] :
      i \in 0..2 }

\* the calls of POST /u in a run in which every request is well-formed and
\* every upload succeeds
MaxUploads == 3

\* the calls of getFile that fail during one download
MaxUnresolved == 1

Uploads == 1..MaxUploads

\* well-formed requests: every position, and a second declaration
RaceRequests ==
  { [BaseRequest EXCEPT !.chunkIndex = p.chunkIndex,
                        !.totalChunks = p.totalChunks] : p \in Positions }
  \cup { [BaseRequest EXCEPT !.fileName = d.fileName, !.fileSize = d.fileSize,
                             !.chunkSize = d.chunkSize] : d \in Declarations }

\* DELETE with a token that some call minted
RaceDeleteRequests == [ fileId : FileIds, token : Uploads ]

\* answers of sendDocument: the file_id of the stored document, or an error
\* whose response carries parameters.retry_after (0: none, or zero)
RetryAfterValues == {0, 5}

----------------------------------------------------------------------------
(* Metadata store: a file <fileId>.json exists iff fileId \in DOMAIN store *)

existsSync(f) == f \in DOMAIN store

writeFileSync(st, f, rec) ==
  [g \in (DOMAIN st) \cup {f} |-> IF g = f THEN rec ELSE st[g]]

unlinkSync(st, f) == [g \in (DOMAIN st) \ {f} |-> st[g]]

\* the record POST /u writes when no metadata file exists
NewMetadata(req) ==
  [ done        |-> FALSE,
    fileId      |-> req.fileId,
    fileName    |-> formatFileName(req.fileName),
    fileSize    |-> JsonNumber(ParseInt(req.fileSize)),
    chunkSize   |-> JsonNumber(ParseInt(req.chunkSize)),
    totalChunks |-> JsonNumber(ParseInt(req.totalChunks)),
    deleteToken |-> NullToken,
    fileIds     |-> <<>> ]

\* the value of a call's locals outside the handler
NoMetadata ==
  [ done |-> FALSE, fileId |-> "", fileName |-> <<>>, fileSize |-> NumNull,
    chunkSize |-> NumNull, totalChunks |-> NumNull, deleteToken |-> NullToken,
    fileIds |-> <<>> ]

IdleCall ==
  [ pc |-> "idle", fileId |-> "", chunkIndex |-> NaN, totalChunks |-> NaN,
    metadata |-> NoMetadata, status |-> 0, ref |-> 0, done |-> FALSE,
    deleteToken |-> NullToken, concurrent |-> {} ]

InFlight(c) == calls[c].pc \in {"uploading", "backoff"}

\* no handler is running: the server is back in the event loop
NoRequest == [op |-> "none", req |-> [fileId |-> ""], status |-> 0]

EventLoop == last = NoRequest

----------------------------------------------------------------------------
(* POST /u *)

\* the test of line 291
MissingFields(req) ==
  \/ ~req.chunk
  \/ req.fileId = ""
  \/ req.fileName = Absent
  \/ req.fileSize = Absent
  \/ req.chunkIndex = Absent
  \/ req.chunkSize = Absent
  \/ req.totalChunks = Absent

\* the upper limit is not tested
ChunkSizeOutOfBounds_NoUpper(chunkSize) == JsLess(chunkSize, 1 * MiB)

\* the test of line 300
ChunkSizeOutOfBounds(chunkSize) ==
  JsLess(chunkSize, 1 * MiB) \/ JsLess(50 * MiB, chunkSize)

\* the done flag of an existing record is not looked at
AlreadyCompleted_Ignored(f) == FALSE

\* the test of lines 307-309
AlreadyCompleted(f) == existsSync(f) /\ store[f].done = TRUE

\* done is set and the token is not minted
IngestedMetadata_NoToken(metadata, ref, chunkIndex, totalChunks, token) ==
  LET pushed == [metadata EXCEPT !.fileIds = Append(@, ref)]
  IN  IF JsIsPredecessor(chunkIndex, totalChunks)
      THEN [pushed EXCEPT !.done = TRUE]
      ELSE pushed

\* lines 337-342: the record the handler persists after the upload
IngestedMetadata(metadata, ref, chunkIndex, totalChunks, token) ==
  LET pushed == [metadata EXCEPT !.fileIds = Append(@, ref)]
  IN  IF JsIsPredecessor(chunkIndex, totalChunks)
      THEN [pushed EXCEPT !.done = TRUE, !.deleteToken = token]
      ELSE pushed

\* lines 288-302: the request is answered 400
UploadRejected(req) ==
  /\ EventLoop
  /\ MissingFields(req) \/ ChunkSizeOutOfBounds(ParseInt(req.chunkSize))
  /\ last' = [op |-> "upload", req |-> req, status |-> 400]
  /\ deleted' = deleted \ {req.fileId}
  /\ UNCHANGED <<store, calls, blobs, dl>>

\* lines 304-315: the request is answered 409
UploadConflict(req) ==
  /\ EventLoop
  /\ ~MissingFields(req)
  /\ ~ChunkSizeOutOfBounds(ParseInt(req.chunkSize))
  /\ AlreadyCompleted(req.fileId)
  /\ last' = [op |-> "upload", req |-> req, status |-> 409]
  /\ deleted' = deleted \ {req.fileId}
  /\ UNCHANGED <<store, calls, blobs, dl>>

\* lines 304-336: the record is created if absent and read, and the handler
\* suspends in uploadToService
UploadBegin(c, req) ==
  /\ EventLoop
  /\ calls[c].pc = "idle"
  /\ \A d \in DOMAIN calls : d < c => calls[d].pc # "idle"
  /\ ~MissingFields(req)
  /\ ~ChunkSizeOutOfBounds(ParseInt(req.chunkSize))
  /\ ~AlreadyCompleted(req.fileId)
  /\ LET f  == req.fileId
         st == IF existsSync(f) THEN store
               ELSE writeFileSync(store, f, NewMetadata(req))
     IN  /\ store' = st
         /\ calls' = [calls EXCEPT ![c] =
               [ IdleCall EXCEPT
                   !.pc = "uploading",
                   !.fileId = f,
                   !.chunkIndex = ParseInt(req.chunkIndex),
                   !.totalChunks = ParseInt(req.totalChunks),
                   !.metadata = st[f],
                   !.concurrent = {d \in DOMAIN calls : InFlight(d)} ]]
         /\ deleted' = deleted \ {f}
  /\ last' = [op |-> "upload", req |-> req, status |-> 0]
  /\ UNCHANGED <<blobs, dl>>

\* lines 225-229: sendDocument fails with retry_after set; the call waits
RateLimited(c, retryAfter) ==
  /\ EventLoop
  /\ calls[c].pc = "uploading"
  /\ retryAfter # 0
  /\ calls' = [calls EXCEPT ![c].pc = "backoff"]
  /\ UNCHANGED <<store, blobs, last, deleted, dl>>

\* after the wait the call gives up and answers 500
Resubmit_GivesUp(c) ==
  /\ EventLoop
  /\ calls[c].pc = "backoff"
  /\ calls' = [calls EXCEPT ![c].pc = "returned", ![c].status = 500]
  /\ UNCHANGED <<store, blobs, last, deleted, dl>>

\* line 229: the wait is over, uploadToService calls itself
Resubmit(c) ==
  /\ EventLoop
  /\ calls[c].pc = "backoff"
  /\ calls' = [calls EXCEPT ![c].pc = "uploading"]
  /\ UNCHANGED <<store, blobs, last, deleted, dl>>

\* lines 223-224 and 337-364: sendDocument succeeds, the record is written
UploadSucceeds(c) ==
  /\ EventLoop
  /\ calls[c].pc = "uploading"
  /\ LET ref == c
         f   == calls[c].fileId
         m   == IngestedMetadata(calls[c].metadata, ref, calls[c].chunkIndex,
                                 calls[c].totalChunks, generateDeleteToken(c))
     IN  /\ blobs' = blobs \cup {ref}
         /\ store' = writeFileSync(store, f, m)
         /\ calls' = [calls EXCEPT
               ![c].pc = "returned",
               ![c].status = 200,
               ![c].ref = ref,
               ![c].metadata = NoMetadata,
               ![c].done = JsIsPredecessor(calls[c].chunkIndex,
                                           calls[c].totalChunks),
               ![c].deleteToken =
                  IF JsIsPredecessor(calls[c].chunkIndex, calls[c].totalChunks)
                  THEN m.deleteToken ELSE NullToken ]
  /\ UNCHANGED <<last, deleted, dl>>

\* the catch block persists the record the handler holds
UploadFails_Persisting(c, retryAfter) ==
  /\ EventLoop
  /\ calls[c].pc = "uploading"
  /\ retryAfter = 0
  /\ calls' = [calls EXCEPT ![c].pc = "returned", ![c].status = 500]
  /\ store' = writeFileSync(store, calls[c].fileId,
                 [calls[c].metadata EXCEPT !.fileIds = Append(@, 0)])
  /\ UNCHANGED <<blobs, last, deleted, dl>>

\* lines 225-231 and 365-368: sendDocument fails without retry_after
UploadFails(c, retryAfter) ==
  /\ EventLoop
  /\ calls[c].pc = "uploading"
  /\ retryAfter = 0
  /\ calls' = [calls EXCEPT ![c].pc = "returned", ![c].status = 500]
  /\ UNCHANGED <<store, blobs, last, deleted, dl>>

----------------------------------------------------------------------------
(* DELETE /:fileId *)

\* a wrong token is accepted
DeleteStatus_AnyToken(req) ==
  IF req.token = NoToken THEN 400
  ELSE IF ~existsSync(req.fileId) THEN 404
  ELSE IF store[req.fileId].deleteToken = NullToken THEN 400
  ELSE 200

\* the record's token is compared without the test for null
DeleteStatus_NoNullTest(req) ==
  IF req.token = NoToken THEN 400
  ELSE IF ~existsSync(req.fileId) THEN 404
  ELSE IF store[req.fileId].deleteToken # req.token THEN 403
  ELSE 200

\* lines 377-395: the status DELETE answers with
DeleteStatus(req) ==
  IF req.token = NoToken THEN 400
  ELSE IF ~existsSync(req.fileId) THEN 404
  ELSE IF store[req.fileId].deleteToken = NullToken THEN 400
  ELSE IF store[req.fileId].deleteToken # req.token THEN 403
  ELSE 200

DeleteFile(req) ==
  /\ EventLoop
  /\ last' = [op |-> "delete", req |-> req, status |-> DeleteStatus(req)]
  /\ IF DeleteStatus(req) = 200
     THEN /\ store' = unlinkSync(store, req.fileId)
          /\ deleted' = deleted \cup {req.fileId}
     ELSE UNCHANGED <<store, deleted>>
  /\ UNCHANGED <<calls, blobs, dl>>

----------------------------------------------------------------------------
(* GET /:fileId without a Range header *)

\* lines 418-426: 404 without a metadata file, otherwise the headers of a
\* 200 answer are set
DownloadStatus(req) == IF ~existsSync(req.fileId) THEN 404 ELSE 200

Download(req) ==
  /\ EventLoop
  /\ last' = [op |-> "download", req |-> req, status |-> DownloadStatus(req)]
  /\ UNCHANGED <<store, calls, blobs, deleted, dl>>

----------------------------------------------------------------------------
(* GET /:fileId step by step: the handler suspends in convertFileIdsToUrls,
   in axios.get of every part and while the part is piped to the client *)

\* lines 235-254: the file_ids whose getFile call answered, in the order of
\* fileIds; the URL of a file_id is modelled by the file_id
convertFileIdsToUrls(fileIds, failed) ==
  SelectSeq(fileIds, LAMBDA ref : ref \notin failed)

\* line 436, for a header that is sent: split("=")[1] is undefined when the
\* header holds no "=", and undefined.split throws a TypeError
RangeThrows(rangeStr) ==
  rangeStr # Absent /\ IndexOf(rangeStr, CharEquals) = 0

\* line 436
RangeStart(rangeStr) ==
  IF rangeStr = Absent THEN NumNull
  ELSE ParseInt(SplitFirst(SplitSecond(rangeStr, CharEquals), CharHyphen))

\* end is start + chunkSize - 1, cut at the last byte of the file
RangeEnd_Inclusive(rangeStr, metadata) ==
  IF rangeStr = Absent THEN NumNull
  ELSE IF RangeStart(rangeStr) = NaN THEN NaN
  ELSE Min(RangeStart(rangeStr) + metadata.chunkSize - 1,
           metadata.fileSize - 1)

\* lines 437-439
RangeEnd(rangeStr, metadata) ==
  IF rangeStr = Absent THEN NumNull
  ELSE IF RangeStart(rangeStr) = NaN THEN NaN
  ELSE Min(RangeStart(rangeStr) + metadata.chunkSize, metadata.fileSize - 1)

\* line 446: Math.floor(start / chunkSize)
StartPartNumber(rangeStr, metadata) ==
  IF RangeStart(rangeStr) = NaN THEN NaN
  ELSE RangeStart(rangeStr) \div metadata.chunkSize

\* line 447: Math.ceil(end / chunkSize)
EndPartNumber(rangeStr, metadata) ==
  IF RangeEnd(rangeStr, metadata) = NaN THEN NaN
  ELSE (RangeEnd(rangeStr, metadata) + metadata.chunkSize - 1)
         \div metadata.chunkSize

\* lines 441-460: the parts to fetch, with the offsets of the first and of
\* the last one
partsToDownload(urls, rangeStr, metadata) ==
  IF rangeStr = Absent
  THEN [i \in 1..Len(urls) |->
          [url |-> urls[i], start |-> Undefined, end |-> Undefined]]
  ELSE LET selected == Slice(urls, StartPartNumber(rangeStr, metadata),
                                   EndPartNumber(rangeStr, metadata))
       IN  [i \in 1..Len(selected) |->
              [ url   |-> selected[i],
                start |-> IF i = 1
                          THEN RangeStart(rangeStr) % metadata.chunkSize
                          ELSE Undefined,
                end   |-> IF i = Len(selected)
                          THEN RangeEnd(rangeStr, metadata) % metadata.chunkSize
                          ELSE Undefined ]]

\* lines 426 and 456-458: status, Content-Length and Content-Range
ResponseStatus(rangeStr) == IF rangeStr = Absent THEN 200 ELSE 206

ContentLength(rangeStr, metadata) ==
  IF rangeStr = Absent THEN metadata.fileSize
  ELSE IF RangeStart(rangeStr) = NaN THEN NaN
  ELSE RangeEnd(rangeStr, metadata) - RangeStart(rangeStr) + 1

ContentRange(rangeStr, metadata) ==
  IF rangeStr = Absent THEN <<>>
  ELSE <<RangeStart(rangeStr), RangeEnd(rangeStr, metadata), metadata.fileSize>>

\* the chunk a document of the backend holds: the one the call that
\* uploaded it was sent
ChunkOf(ref) == calls[ref].chunkIndex

\* the length of chunk i of a file that the client cut at chunkSize
ChunkLength(metadata, i) ==
  Min(metadata.chunkSize, metadata.fileSize - i * metadata.chunkSize)

\* lines 463-466: the first byte the request of a part asks for
\* (part.start || 0)
PartFrom(part) == IF part.start = Undefined THEN 0 ELSE part.start

\* the bytes of the document that the backend sends for the request of a
\* part: from PartFrom to part.end, or to the last byte when part.end is
\* undefined or beyond it
Segment(part, metadata) ==
  LET n == ChunkLength(metadata, ChunkOf(part.url))
  IN  [ chunk |-> ChunkOf(part.url),
        from  |-> PartFrom(part),
        to    |-> IF part.end = Undefined THEN n - 1
                  ELSE Min(part.end, n - 1) ]

\* no GET /:fileId is being served
IdleDownload ==
  [ pc |-> "idle", fileId |-> "", range |-> Absent, metadata |-> NoMetadata,
    urls |-> <<>>, parts |-> <<>>, part |-> 0, status |-> 0,
    contentLength |-> Undefined, contentRange |-> <<>>,
    headersSent |-> FALSE, res |-> "open", written |-> <<>>,
    pipes |-> <<>>, waiters |-> <<>>, wire |-> <<>>, closed |-> FALSE ]

\* line 482: res.end()
Ended(d) == [d EXCEPT !.pc = "finished", !.headersSent = TRUE, !.res = "ended"]

\* lines 483-491: the catch block answers 500 with a JSON body (whose
\* headers are not modelled) when no header was sent, and does nothing
\* otherwise
Caught(d) ==
  IF ~d.headersSent
  THEN [d EXCEPT !.pc = "finished", !.status = 500,
                 !.contentLength = Undefined, !.contentRange = <<>>,
                 !.headersSent = TRUE, !.res = "ended"]
  ELSE [d EXCEPT !.pc = "finished"]

\* lines 416-433: 404 without a metadata file; otherwise the record is
\* read, the headers of the whole file are set and the handler suspends in
\* convertFileIdsToUrls. A download starts when no upload is pending.
DownloadBegin(req) ==
  /\ EventLoop
  /\ dl.pc = "idle"
  /\ \A c \in DOMAIN calls : ~InFlight(c)
  /\ dl' = IF ~existsSync(req.fileId)
           THEN [IdleDownload EXCEPT
                   !.pc = "finished", !.fileId = req.fileId,
                   !.range = req.range, !.status = 404,
                   !.headersSent = TRUE, !.res = "ended"]
           ELSE [IdleDownload EXCEPT
                   !.pc = "resolving", !.fileId = req.fileId,
                   !.range = req.range, !.metadata = store[req.fileId],
                   !.status = 200,
                   !.contentLength = store[req.fileId].fileSize]
  /\ UNCHANGED <<store, calls, blobs, last, deleted>>

\* lines 433-468: the URLs are there (getFile failed for the file_ids in
\* failed); the range is computed, the parts are chosen, and the handler
\* suspends in axios.get of the first part or, without parts, ends
UrlsResolved(failed) ==
  /\ EventLoop
  /\ dl.pc = "resolving"
  /\ \A ref \in failed : InSeq(ref, dl.metadata.fileIds)
  /\ Cardinality(failed) <= MaxUnresolved
  /\ LET urls  == convertFileIdsToUrls(dl.metadata.fileIds, failed)
         parts == partsToDownload(urls, dl.range, dl.metadata)
         set   == [dl EXCEPT
                     !.urls = urls, !.parts = parts,
                     !.status = ResponseStatus(dl.range),
                     !.contentLength = ContentLength(dl.range, dl.metadata),
                     !.contentRange = ContentRange(dl.range, dl.metadata)]
     IN  dl' = IF RangeThrows(dl.range) THEN Caught([dl EXCEPT !.urls = urls])
               ELSE IF parts = <<>> THEN Ended(set)
               ELSE [set EXCEPT !.pc = "fetching", !.part = 1]
  /\ UNCHANGED <<store, calls, blobs, last, deleted>>

\* lines 468-479: axios.get answers with the stream of a part the document
\* can serve, which is piped to the response
FetchResponds ==
  /\ EventLoop
  /\ dl.pc = "fetching"
  /\ Segment(dl.parts[dl.part], dl.metadata).from
       <= Segment(dl.parts[dl.part], dl.metadata).to
  /\ dl' = [dl EXCEPT !.pc = "streaming"]
  /\ UNCHANGED <<store, calls, blobs, last, deleted>>

\* lines 468 and 483-491: axios.get rejects
FetchFails ==
  /\ EventLoop
  /\ dl.pc = "fetching"
  /\ dl' = Caught(dl)
  /\ UNCHANGED <<store, calls, blobs, last, deleted>>

\* lines 473-482: the data of the part were written to the response and
\* its stream ended; the next part is fetched or the response is ended
PartStreamed ==
  /\ EventLoop
  /\ dl.pc = "streaming"
  /\ LET wrote == [dl EXCEPT
                     !.written = Append(@, Segment(dl.parts[dl.part],
                                                   dl.metadata)),
                     !.headersSent = TRUE]
     IN  dl' = IF dl.part = Len(dl.parts) THEN Ended(wrote)
               ELSE [wrote EXCEPT !.pc = "fetching", !.part = @ + 1]
  /\ UNCHANGED <<store, calls, blobs, last, deleted>>

\* lines 477 and 483-491: the stream of the part emits "error", before any
\* of its data were written or after some were
StreamFails(wrote) ==
  /\ EventLoop
  /\ dl.pc = "streaming"
  /\ dl' = Caught([dl EXCEPT !.headersSent = @ \/ wrote])
  /\ UNCHANGED <<store, calls, blobs, last, deleted>>

----------------------------------------------------------------------------
(* Lines 473-479 event by event: the stream of a part (the source) is piped
   into an AsyncStreamProcessor, whose _transform writes every datum to the
   response and holds its callback back until the response has drained *)

\* line 259: super() without options, so the writable side of the transform
\* has the default highWaterMark of the runtime (src/Dockerfile: node 18)
HighWaterMark == 16384

\* the sizes of the data a source emits: below the highWaterMark, or at it
DataSizes == {4096, HighWaterMark}

\* the most 'data' events of one source
MaxData == 2

\* how many calls of res.write return true in one turn of the event loop
Room == 0..MaxData

\* no datum
NoData == [part |-> 0, k |-> 0, size |-> 0]

\* line 474: the pipe of a part whose source has emitted nothing yet.
\* writing is the datum that _transform holds, buffered are the data queued
\* in the writable side of the transform, length is the size of both,
\* flowing is FALSE while pipe() has paused the source
NewPipe(part) ==
  [ part |-> part, emitted |-> 0, writing |-> NoData, buffered |-> <<>>,
    length |-> 0, flowing |-> TRUE, ended |-> FALSE ]

\* the response takes data: it is neither ended nor closed
Writable(d) == d.res = "open" /\ ~d.closed

\* line 475: res.write(data); what is written to a response that is ended
\* or closed is discarded
ResWrite(d, data) ==
  IF Writable(d)
  THEN [d EXCEPT !.wire = Append(@, [part |-> data.part, k |-> data.k]),
                 !.headersSent = TRUE]
  ELSE d

\* lines 263-267 and 475: 'drain' of the response calls the listeners of the
\* waiting pipes ws in the order they were registered. Each pipe calls the
\* callback of the datum it holds and passes the next queued datum to
\* _transform, which writes it; a pipe whose write returned true goes on in
\* the next round of microtasks (again), one whose write returned false
\* waits for the next 'drain'. A pipe whose queue is empty emits 'drain'
\* itself, which resumes its source.
RECURSIVE Resume(_, _, _, _)
Resume(d, ws, again, room) ==
  IF ws = <<>>
  THEN IF again = <<>> THEN d ELSE Resume(d, again, <<>>, room)
  ELSE LET p    == Head(ws)
           pipe == d.pipes[p]
           done == [d EXCEPT !.pipes[p].length = @ - pipe.writing.size,
                             !.pipes[p].writing = NoData]
       IN  IF pipe.buffered = <<>>
           THEN Resume([done EXCEPT !.pipes[p].flowing = ~pipe.ended],
                       Tail(ws), again, room)
           ELSE LET data == Head(pipe.buffered)
                    next == [ResWrite(done, data) EXCEPT
                               !.pipes[p].writing = data,
                               !.pipes[p].buffered = Tail(@)]
                IN  IF room > 0 /\ Writable(d)
                    THEN Resume(next, Tail(ws), Append(again, p), room - 1)
                    ELSE Resume([next EXCEPT !.waiters = Append(@, p)],
                                Tail(ws), again, 0)

\* lines 468-478: axios.get answers with the stream of a part the document
\* can serve; it is piped into a new AsyncStreamProcessor
StreamOpens ==
  /\ EventLoop
  /\ dl.pc = "fetching"
  /\ Segment(dl.parts[dl.part], dl.metadata).from
       <= Segment(dl.parts[dl.part], dl.metadata).to
  /\ dl' = [dl EXCEPT !.pc = "streaming",
                      !.pipes = Append(@, NewPipe(dl.part))]
  /\ UNCHANGED <<store, calls, blobs, last, deleted>>

\* lines 474-475 and 263-267: the source emits 'data' and pipe() writes the
\* datum to the transform, pausing the source when the queue of the
\* transform reaches the highWaterMark. A transform that holds no datum
\* passes it to _transform, which writes it to the response: the callback is
\* called when res.write returned true (accepted), and after 'drain' when it
\* returned false. A transform that holds a datum queues the new one.
SourceData(size, accepted) ==
  /\ EventLoop
  /\ dl.pc = "streaming"
  /\ LET p    == Len(dl.pipes)
         pipe == dl.pipes[p]
         data == [part |-> pipe.part, k |-> pipe.emitted + 1, size |-> size]
     IN  /\ pipe.flowing
         /\ pipe.emitted < MaxData
         /\ dl' =
              IF pipe.writing # NoData
              THEN [dl EXCEPT !.pipes[p].emitted = @ + 1,
                              !.pipes[p].buffered = Append(@, data),
                              !.pipes[p].length = @ + size,
                              !.pipes[p].flowing =
                                 pipe.length + size < HighWaterMark]
              ELSE IF accepted /\ Writable(dl)
              THEN [ResWrite(dl, data) EXCEPT !.pipes[p].emitted = @ + 1]
              ELSE [ResWrite(dl, data) EXCEPT
                      !.pipes[p].emitted = @ + 1,
                      !.pipes[p].writing = data,
                      !.pipes[p].length = size,
                      !.pipes[p].flowing = size < HighWaterMark,
                      !.waiters = Append(@, p)]
  /\ UNCHANGED <<store, calls, blobs, last, deleted>>

\* lines 478-482: the source, which is not paused, has emitted its last
\* datum and emits 'end'; the promise of the part resolves and the loop goes
\* on to axios.get of the next part or, after the last one, to res.end()
SourceEnd ==
  /\ EventLoop
  /\ dl.pc = "streaming"
  /\ LET p     == Len(dl.pipes)
         pipe  == dl.pipes[p]
         ended == [dl EXCEPT !.pipes[p].ended = TRUE,
                             !.pipes[p].flowing = FALSE]
     IN  /\ pipe.flowing
         /\ pipe.emitted >= 1
         /\ dl' = IF dl.part = Len(dl.parts)
                  THEN [ended EXCEPT !.pc = "finished", !.res = "ended"]
                  ELSE [ended EXCEPT !.pc = "fetching", !.part = @ + 1]
  /\ UNCHANGED <<store, calls, blobs, last, deleted>>

\* lines 477 and 483-491: the source emits 'error'; the promise of the part
\* rejects and the catch block runs
SourceError ==
  /\ EventLoop
  /\ dl.pc = "streaming"
  /\ LET p == Len(dl.pipes)
     IN  dl' = Caught([dl EXCEPT !.pipes[p].ended = TRUE,
                                 !.pipes[p].flowing = FALSE])
  /\ UNCHANGED <<store, calls, blobs, last, deleted>>

\* line 475: the response, which is open, emits 'drain' and the pipes that
\* wait for it go on
ResDrain(room) ==
  /\ EventLoop
  /\ dl.waiters # <<>>
  /\ Writable(dl)
  /\ dl' = Resume([dl EXCEPT !.waiters = <<>>], dl.waiters, <<>>, room)
  /\ UNCHANGED <<store, calls, blobs, last, deleted>>

\* lines 414-492: the client goes away while the handler is suspended; the
\* handler has registered no listener for 'close' or 'aborted' on req or res
\* and has passed no signal to axios.get, so nothing of it runs
ClientDisconnect ==
  /\ EventLoop
  /\ dl.pc \in {"resolving", "fetching", "streaming"}
  /\ ~dl.closed
  /\ dl' = [dl EXCEPT !.closed = TRUE]
  /\ UNCHANGED <<store, calls, blobs, last, deleted>>

\* POST /u that starts when no other call is pending and no download has
\* started
UploadBeginAlone(c, req) ==
  /\ dl.pc = "idle"
  /\ \A d \in DOMAIN calls : ~InFlight(d)
  /\ UploadBegin(c, req)

----------------------------------------------------------------------------

\* the handler has answered or has suspended at an await: control is back
\* in the event loop, which runs the next request or continuation
Return ==
  /\ ~EventLoop
  /\ last' = NoRequest
  /\ UNCHANGED <<store, calls, blobs, deleted, dl>>

Init ==
  /\ store = <<>>
  /\ calls = [c \in Slots |-> IdleCall]
  /\ blobs = {}
  /\ last = NoRequest
  /\ deleted = {}
  /\ dl = IdleDownload

Next ==
  \/ \E req \in UploadRequests : UploadRejected(req)
  \/ \E req \in UploadRequests : UploadConflict(req)
  \/ \E c \in Slots, req \in UploadRequests : UploadBegin(c, req)
  \/ \E c \in Slots, ra \in RetryAfterValues : RateLimited(c, ra)
  \/ \E c \in Slots : Resubmit(c)
  \/ \E c \in Slots : UploadSucceeds(c)
  \/ \E c \in Slots, ra \in RetryAfterValues : UploadFails(c, ra)
  \/ \E req \in DeleteRequests : DeleteFile(req)
  \/ \E req \in DownloadRequests : Download(req)
  \/ Return

Spec == Init /\ [][Next]_vars

----------------------------------------------------------------------------
(* Overlapping uploads: up to MaxUploads calls of POST /u with well-formed
   requests whose uploads all succeed, and DELETE *)

InitUploads ==
  /\ store = <<>>
  /\ calls = [c \in Uploads |-> IdleCall]
  /\ blobs = {}
  /\ last = NoRequest
  /\ deleted = {}
  /\ dl = IdleDownload

RaceNext ==
  \/ \E c \in Uploads, req \in RaceRequests : UploadBegin(c, req)
  \/ \E c \in Uploads : UploadSucceeds(c)
  \/ \E req \in RaceDeleteRequests : DeleteFile(req)
  \/ Return

RaceSpec == InitUploads /\ [][RaceNext]_vars

----------------------------------------------------------------------------
(* Downloads: one GET /:fileId, with or without a Range header, of what up
   to MaxUploads calls of POST /u that ran one after the other stored *)

DownloadNext ==
  \/ \E c \in Uploads, req \in ChunkRequests : UploadBeginAlone(c, req)
  \/ \E c \in Uploads : UploadSucceeds(c)
  \/ Return
  \/ \E req \in GetRequests : DownloadBegin(req)
  \/ \E failed \in SUBSET Uploads : UrlsResolved(failed)
  \/ FetchResponds
  \/ FetchFails
  \/ PartStreamed
  \/ \E wrote \in BOOLEAN : StreamFails(wrote)

DownloadSpec == InitUploads /\ [][DownloadNext]_vars

----------------------------------------------------------------------------
(* Streaming: one GET /:fileId whose references all resolve, with the
   'data', 'end' and 'error' events of the sources, the 'drain' events of
   the response and the disconnection of the client *)

StreamGetRequests ==
  [ fileId : FileIds, range : {Absent, OpenRange(<<5, 0, 0, 0, 0, 0, 0>>)} ]

StreamNext ==
  \/ \E c \in Uploads, req \in ChunkRequests : UploadBeginAlone(c, req)
  \/ \E c \in Uploads : UploadSucceeds(c)
  \/ Return
  \/ \E req \in StreamGetRequests : DownloadBegin(req)
  \/ UrlsResolved({})
  \/ StreamOpens
  \/ FetchFails
  \/ \E size \in DataSizes, accepted \in BOOLEAN : SourceData(size, accepted)
  \/ SourceEnd
  \/ SourceError
  \/ \E room \in Room : ResDrain(room)
  \/ ClientDisconnect

StreamSpec == InitUploads /\ [][StreamNext]_vars

----------------------------------------------------------------------------
(* Rate limiting: calls of POST /u with well-formed requests against a
   backend that answers with a file_id, an error, or retry_after *)

RetryRequests ==
  { [BaseRequest EXCEPT !.chunkIndex = p.chunkIndex,
                        !.totalChunks = p.totalChunks] : p \in Positions }

RetryNext ==
  \/ \E c \in Slots, req \in RetryRequests : UploadBegin(c, req)
  \/ \E c \in Slots, ra \in RetryAfterValues : RateLimited(c, ra)
  \/ \E c \in Slots : Resubmit(c)
  \/ \E c \in Slots : UploadSucceeds(c)
  \/ \E c \in Slots, ra \in RetryAfterValues : UploadFails(c, ra)
  \/ Return

\* the handler runs to its next await, and the timer of wait() fires
RetrySpec ==
  /\ Init /\ [][RetryNext]_vars
  /\ WF_vars(Return)
  /\ \A c \in Slots : WF_vars(Resubmit(c))

----------------------------------------------------------------------------
(* Properties *)

\* a step in which the POST /u handler takes up the request last'.req
UploadHandled == last = NoRequest /\ last'.op = "upload"

\* a step in which the DELETE handler answers the request last'.req
DeleteHandled == last = NoRequest /\ last'.op = "delete"

\* the request lacks a field or declares a number outside [1 MiB, 50 MiB] as
\* chunk size
Malformed(req) ==
  \/ ~req.chunk \/ req.fileId = "" \/ req.fileName = Absent
  \/ req.fileSize = Absent \/ req.chunkIndex = Absent
  \/ req.chunkSize = Absent \/ req.totalChunks = Absent
  \/ /\ ParseInt(req.chunkSize) # NaN
     /\ \/ ParseInt(req.chunkSize) < 1048576
        \/ ParseInt(req.chunkSize) > 52428800

Succeeded(c) == calls[c].pc = "returned" /\ calls[c].status = 200

\* C1: a POST /u that passes the validation and starts when the record of its fileId
\* exists with done = true is answered 409, issues no backend upload and
\* leaves the metadata store as it was.
C1_ConflictGuard ==
  [][ ( /\ UploadHandled
        /\ ~Malformed(last'.req)
        /\ last'.req.fileId \in DOMAIN store
        /\ store[last'.req.fileId].done = TRUE )
      => ( /\ last'.status = 409
           /\ UNCHANGED <<store, calls, blobs>> ) ]_vars

C1_Witness ==
  /\ last.op = "upload" /\ last.status = 409
  /\ last.req.fileId \in DOMAIN store
  /\ store[last.req.fileId].done = TRUE

\* C2: every stored record has a non-null deleteToken exactly when its done
\* flag is true.
C2_TokenIffDone ==
  \A f \in DOMAIN store :
    (store[f].deleteToken # NullToken) <=> (store[f].done = TRUE)

C2_Witness ==
  \E f \in DOMAIN store :
    /\ store[f].done = TRUE /\ store[f].deleteToken # NullToken
    /\ Len(store[f].fileIds) = 2

\* C3: a record is done exactly when some successfully ingested call for its
\* fileId had chunkIndex equal to the record's stored totalChunks - 1.
C3_CompletionByStoredTotal ==
  \A f \in DOMAIN store :
    (store[f].done = TRUE) <=>
      \E c \in Slots :
        /\ Succeeded(c) /\ calls[c].fileId = f
        /\ calls[c].chunkIndex = store[f].totalChunks - 1

\* C4: a record that is done is still done after every step that does not
\* delete it.
C4_DoneIrreversible ==
  [][ \A f \in DOMAIN store :
        (store[f].done = TRUE /\ f \in DOMAIN store') => store'[f].done = TRUE
    ]_vars

\* C5: when two calls for the same fileId overlapped and both returned
\* success, the record holds the backend references of both.
C5_NoLostAppend ==
  \A c, d \in Slots :
    ( /\ c # d /\ Succeeded(c) /\ Succeeded(d)
      /\ calls[c].fileId = calls[d].fileId
      /\ c \in calls[d].concurrent
      /\ calls[c].fileId \in DOMAIN store )
    => ( /\ InSeq(calls[c].ref, store[calls[c].fileId].fileIds)
         /\ InSeq(calls[d].ref, store[calls[c].fileId].fileIds) )

\* C6: after a successful DELETE of a fileId, and as long as no POST /u for
\* it has started since, the record is absent and a download is answered 404.
C6_DeletedStaysAbsent ==
  \A f \in deleted :
    /\ f \notin DOMAIN store
    /\ (last.op = "download" /\ last.req.fileId = f) => last.status = 404

\* C7: DELETE with a token that differs from the record's non-null
\* deleteToken is answered 403 and leaves the record as it was.
C7_WrongTokenForbidden ==
  [][ ( /\ DeleteHandled
        /\ last'.req.token # NoToken
        /\ last'.req.fileId \in DOMAIN store
        /\ store[last'.req.fileId].deleteToken # NullToken
        /\ store[last'.req.fileId].deleteToken # last'.req.token )
      => ( /\ last'.status = 403
           /\ store' = store ) ]_vars

C7_Witness ==
  /\ last.op = "delete" /\ last.status = 403
  /\ last.req.fileId \in DOMAIN store
  /\ store[last.req.fileId].deleteToken \notin {NullToken, last.req.token}

C10_FailedUploadNotRecorded ==
  [][ \A c \in Slots :
        /\ ( calls[c].pc = "uploading" /\ calls'[c].pc = "returned"
             /\ calls'[c].status = 500 )
           => UNCHANGED <<store, blobs>>
        /\ ( calls[c].pc = "idle" /\ calls'[c].pc = "uploading" )
           => /\ calls'[c].fileId \in DOMAIN store => store' = store
              /\ calls'[c].fileId \notin DOMAIN store
                   => /\ store'[calls'[c].fileId].fileIds = <<>>
                      /\ store'[calls'[c].fileId].done = FALSE
                      /\ store'[calls'[c].fileId].deleteToken = NullToken
        /\ ( calls[c].pc = "uploading" /\ calls'[c].pc = "returned"
             /\ calls'[c].status = 200 )
           => store'[calls[c].fileId].fileIds
                = Append(calls[c].metadata.fileIds, calls'[c].ref)
    ]_vars

\* a call failed, and a later call for the same chunk succeeded and left
\* exactly its own reference in the record
C10_Witness ==
  \E c, d \in Slots :
    /\ calls[c].pc = "returned" /\ calls[c].status = 500
    /\ Succeeded(d) /\ calls[d].concurrent = {}
    /\ c < d
    /\ calls[d].fileId = calls[c].fileId
    /\ calls[d].chunkIndex = calls[c].chunkIndex
    /\ calls[c].fileId \in DOMAIN store
    /\ store[calls[c].fileId].fileIds = <<calls[d].ref>>

\* C13: once the deleteToken of a record is non-null, every step that does
\* not delete the record leaves the token's value as it is.
C13_TokenNeverRegenerated ==
  [][ \A f \in DOMAIN store :
        (store[f].deleteToken # NullToken /\ f \in DOMAIN store')
          => store'[f].deleteToken = store[f].deleteToken ]_vars

\* C11: every stored record holds at most as many backend references as its
\* totalChunks.
C11_RefsWithinTotal ==
  \A f \in DOMAIN store : Len(store[f].fileIds) <= store[f].totalChunks

\* C12: a step that does not delete a record leaves its fileName, fileSize,
\* chunkSize and totalChunks as they are.
C12_DeclarationFixed ==
  [][ \A f \in DOMAIN store :
        f \in DOMAIN store'
          => /\ store'[f].fileName = store[f].fileName
             /\ store'[f].fileSize = store[f].fileSize
             /\ store'[f].chunkSize = store[f].chunkSize
             /\ store'[f].totalChunks = store[f].totalChunks ]_vars

\* C18: a step that does not delete a record does not shorten its list of
\* backend references.
C18_RefsNeverShrink ==
  [][ \A f \in DOMAIN store :
        f \in DOMAIN store'
          => Len(store'[f].fileIds) >= Len(store[f].fileIds) ]_vars

\* the backend does not answer call c with retry_after for ever
AnswersEventually(c) ==
  SF_vars(UploadSucceeds(c) \/ \E ra \in RetryAfterValues : UploadFails(c, ra))

\* C16: a call that was answered retry_after is not answered to the client:
\* its next step is the resubmission of the upload, which always comes; and
\* when the backend does not answer retry_after for ever, the call returns.
C16_RateLimitAbsorbed ==
  /\ [][ \A c \in DOMAIN calls :
           calls[c].pc = "backoff"
             => /\ calls'[c].pc \in {"backoff", "uploading"}
                /\ calls'[c].status = 0 ]_vars
  /\ \A c \in Slots : (calls[c].pc = "backoff") ~> (calls[c].pc = "uploading")
  /\ \A c \in Slots :
       AnswersEventually(c) => (InFlight(c) ~> (calls[c].pc = "returned"))

\* a call was answered retry_after and waits; no answer was sent for it
C16_Witness ==
  \E c \in DOMAIN calls :
    /\ calls[c].pc = "backoff" /\ calls[c].status = 0
    /\ calls[c].fileId \in DOMAIN store
    /\ store[calls[c].fileId].fileIds = <<>>

\* the record of a file of 25,000,000 bytes in chunks of 10,000,000 with 3
\* references, downloaded with "Range: bytes=5000000-": every reference
\* was resolved, the parts are chosen and no 500 was answered
RangeExample ==
  /\ dl.pc \in {"fetching", "streaming", "finished"}
  /\ dl.status # 500
  /\ dl.range = OpenRange(<<5, 0, 0, 0, 0, 0, 0>>)
  /\ dl.metadata.fileSize = 25000000
  /\ dl.metadata.chunkSize = 10000000
  /\ Len(dl.metadata.fileIds) = 3
  /\ dl.urls = dl.metadata.fileIds

WholeFileDelivered ==
  /\ dl.pc = "finished" /\ dl.res = "ended" /\ dl.status = 200
  /\ dl.range = Absent
  /\ dl.metadata.done = TRUE
  /\ Len(dl.metadata.fileIds) = dl.metadata.totalChunks
  /\ \A i \in 0..(dl.metadata.totalChunks - 1) :
       \E k \in 1..Len(dl.metadata.fileIds) : ChunkOf(dl.metadata.fileIds[k]) = i
  /\ Len(dl.written) = Len(dl.metadata.fileIds)

\* C15: a download without Range header of a completed file delivers chunk
\* 0, then chunk 1, and so on, whatever the order of ingestion was.
C15_DeliveryInIndexOrder ==
  WholeFileDelivered =>
    \A k \in 1..Len(dl.written) : dl.written[k].chunk = k - 1

\* the header has the form "bytes=<start>-"
IsOpenRange(rangeStr) ==
  /\ Len(rangeStr) >= 8
  /\ SubSeq(rangeStr, 1, 6) = BytesUnit \o <<CharEquals>>
  /\ rangeStr[Len(rangeStr)] = CharHyphen
  /\ \A i \in 7..(Len(rangeStr) - 1) : rangeStr[i] \in 0..9

\* the handler of a GET for an existing record has got past the choice of
\* the parts and no fetch has answered yet
PartsChosen ==
  /\ dl.status # 404
  /\ \/ dl.pc = "fetching" /\ dl.part = 1
     \/ dl.pc = "finished" /\ dl.part = 0

\* C17: a download with a Range header that is not of the form
\* "bytes=<start>-" is answered like one without Range header: status 200,
\* Content-Length = fileSize, no Content-Range, every resolved chunk in full.
C17_OtherRangeIgnored ==
  ( PartsChosen /\ dl.range # Absent /\ ~IsOpenRange(dl.range) )
    => /\ dl.status = 200
       /\ dl.contentLength = dl.metadata.fileSize
       /\ dl.contentRange = <<>>
       /\ dl.parts = partsToDownload(dl.urls, Absent, dl.metadata)

\* the bytes that the requests of the parts from part i on ask the backend for
RECURSIVE RequestedBytes(_, _, _)
RequestedBytes(parts, metadata, i) ==
  IF i > Len(parts) THEN 0
  ELSE Segment(parts[i], metadata).to - Segment(parts[i], metadata).from + 1
         + RequestedBytes(parts, metadata, i + 1)

\* the record holds one reference per chunk, in index order, of a file cut
\* at chunkSize
FullyUploaded(metadata) ==
  /\ Len(metadata.fileIds) = metadata.totalChunks
  /\ \A k \in 1..Len(metadata.fileIds) : ChunkOf(metadata.fileIds[k]) = k - 1
  /\ (metadata.totalChunks - 1) * metadata.chunkSize < metadata.fileSize
  /\ metadata.fileSize <= metadata.totalChunks * metadata.chunkSize

\* a 206 answer to "Range: bytes=<start>-" with start < fileSize on a fully
\* uploaded file whose references all resolved
RangeAnswered ==
  /\ dl.pc \in {"fetching", "streaming", "finished"}
  /\ dl.status = 206
  /\ IsOpenRange(dl.range)
  /\ RangeStart(dl.range) < dl.metadata.fileSize
  /\ FullyUploaded(dl.metadata)
  /\ dl.urls = dl.metadata.fileIds

\* C19: in every 206 answer the bytes requested from the selected chunks
\* with the offsets of the parts add up to Content-Length = end - start + 1,
\* where end = min(start + chunkSize, fileSize - 1).
C19_RangeLengthMatches ==
  RangeAnswered =>
    /\ dl.contentLength
         = Min(RangeStart(dl.range) + dl.metadata.chunkSize,
               dl.metadata.fileSize - 1) - RangeStart(dl.range) + 1
    /\ RequestedBytes(dl.parts, dl.metadata, 1) = dl.contentLength

\* C20: when the handler of a download is through after the headers of the
\* response were sent, whether or not a fetch failed, the response is
\* terminated; no step of the handler remains that could terminate it later.
C20_FailedStreamTerminated ==
  (dl.pc = "finished" /\ dl.headersSent) => dl.res \in {"ended", "destroyed"}

\* convertFileIdsToUrls of the download of an existing record has returned
UrlsThere ==
  /\ dl.pc \in {"fetching", "streaming", "finished"}
  /\ dl.status # 404

\* the index in the URL list before the first selected part: startPart of a
\* range, 0 without one
FirstSelected ==
  IF dl.range = Absent THEN 0
  ELSE IF StartPartNumber(dl.range, dl.metadata) = NaN THEN 0
  ELSE StartPartNumber(dl.range, dl.metadata)

\* C23: in every download the k-th entry of the resolved URL list is the URL
\* of the k-th reference of the record, and the i-th selected part is the
\* one of reference startPart + i, also when some reference resolved to null.
C23_UrlsAlignedWithRefs ==
  UrlsThere =>
    /\ \A k \in 1..Len(dl.urls) : dl.urls[k] = dl.metadata.fileIds[k]
    /\ \A i \in 1..Len(dl.parts) :
         dl.parts[i].url = dl.metadata.fileIds[FirstSelected + i]

\* the data that the source of pipe p has emitted and that were not passed
\* to res.write yet
Unwritten(p) == dl.pipes[p].buffered

\* C22: while the client is connected, under every interleaving of 'data',
\* 'end' and 'drain' events, no datum of a part is written to the response
\* while a datum of an earlier part is still unwritten, and the response is
\* not ended while a datum of any part is still unwritten.
C22_PartsWrittenInOrder ==
  ~dl.closed =>
    /\ \A i \in 1..Len(dl.wire) : \A p \in 1..Len(dl.pipes) :
         dl.pipes[p].part < dl.wire[i].part => Unwritten(p) = <<>>
    /\ dl.res = "ended" =>
         \A p \in 1..Len(dl.pipes) : Unwritten(p) = <<>>

\* a step of the download can be taken without a failure of the backend:
\* the URLs arrive, the stream of a part that the document can serve opens,
\* a source that is not paused emits 'data' or 'end', or the response, which
\* is open, emits 'drain'
CanStep ==
  /\ EventLoop
  /\ \/ dl.pc = "resolving"
     \/ /\ dl.pc = "fetching"
        /\ Segment(dl.parts[dl.part], dl.metadata).from
             <= Segment(dl.parts[dl.part], dl.metadata).to
     \/ dl.pc = "streaming" /\ dl.pipes[Len(dl.pipes)].flowing
     \/ dl.waiters # <<>> /\ Writable(dl)

\* the handler is through, no stream of the backend is open and no pipe
\* waits for 'drain'
Stopped ==
  /\ dl.pc = "finished"
  /\ \A p \in 1..Len(dl.pipes) : dl.pipes[p].ended
  /\ dl.waiters = <<>>

\* C21: after the client has disconnected, when no step of the download
\* remains that could be taken without a failure of the backend, the handler
\* has stopped: no backend fetch of the request is open and no wait of the
\* request is pending.
C21_DisconnectStopsHandler ==
  (dl.closed /\ last = NoRequest /\ ~CanStep) => Stopped

====
